---- MODULE Spec2Model ----
(***************************************************************************)
(* A model of the UNIX domain socket driver, src/drivers/uds/uds.c.        *)
(*                                                                         *)
(* The driver is single threaded: every handler of uds_tab runs to         *)
(* completion, so each handler is one action.  The descriptor table is the *)
(* variable fd; the calls a handler makes into the character device        *)
(* transport (chardriver_reply_task, chardriver_reply_select,              *)
(* chardriver_terminate) are collected, in order, in the field out of the  *)
(* world a handler works on, and the handler gives its return value.       *)
(*                                                                         *)
(* The fields owner and ancillary_data of a slot are not modelled: the     *)
(* data path never reads them.                                             *)
(***************************************************************************)
EXTENDS Integers, Sequences, FiniteSets, TLC

(***************************************************************************)
(* Sizes.  The table, the ring buffer and the backlog are scaled down.     *)
(***************************************************************************)
NR_FDS == 4
UDS_BUF == 2
UDS_SOMAXCONN == 2

\* Bounds of the environment.
MaxSize == 3
NBytes == 2
MaxPath == 2
MaxEndpt == 1
MaxId == 1
MaxDepth == 6

Minors == 0 .. (NR_FDS - 1)
Endpts == 1 .. MaxEndpt
Ids == 1 .. MaxId
Paths == 1 .. MaxPath
Sizes == 0 .. MaxSize

(***************************************************************************)
(* Constants of the source.  Error codes are negative, as they are inside  *)
(* the system, so that "bytes > 0" separates a byte count from an error.   *)
(***************************************************************************)
OK == 0
ENOENT == -2
EINTR == -4
ENXIO == -6
ENOMEM == -12
EFAULT == -14
EINVAL == -22
ENFILE == -23
EPIPE == -32
EAGAIN == -35
EINPROGRESS == -36
EMSGSIZE == -40
ECONNRESET == -54
ENOTCONN == -57
ECONNREFUSED == -61
EDONTREPLY == -201

UDS_FREE == "UDS_FREE"
UDS_INUSE == "UDS_INUSE"

UDS_R == "R"
UDS_W == "W"

SOCK_STREAM == 1
SOCK_DGRAM == 2
SOCK_SEQPACKET == 5
TYPE_UNSET == -1
SockTypes == {SOCK_STREAM, SOCK_DGRAM, SOCK_SEQPACKET}

AF_UNSPEC == 0
AF_UNIX == 1

UDS_NOT_SUSPENDED == "NOT_SUSPENDED"
UDS_SUSPENDED_READ == "READ"
UDS_SUSPENDED_WRITE == "WRITE"
UDS_SUSPENDED_CONNECT == "CONNECT"
UDS_SUSPENDED_ACCEPT == "ACCEPT"

CDEV_OP_RD == "RD"
CDEV_OP_WR == "WR"
CDEV_OP_ERR == "ERR"
CDEV_NOTIFY == "NOTIFY"
CDEV_NONBLOCK == "NONBLOCK"

NONE == 0

(***************************************************************************)
(* A grant names memory of the requester.  start is the first byte of the  *)
(* data a writer offers (0 for a reader's destination) and len the number  *)
(* of bytes the grant covers: a safe copy past it fails.                   *)
(***************************************************************************)
GRANT_INVALID == [start |-> 0, len |-> 0]

\* The byte at offset off of the memory a grant names.
GrantByte(grant, off) == ((grant.start - 1 + off) % NBytes) + 1

GrantData(grant, off, n) == [i \in 1 .. n |-> GrantByte(grant, off + i - 1)]

\* sys_safecopyfrom / sys_safecopyto: OK when the range lies in the grant.
safecopy_ok(grant, off, n) == off + n <= grant.len

ZeroAddr == [family |-> AF_UNSPEC, path |-> 0]

\* A slot after memset(&uds_fd_table[minor], '\0', sizeof(uds_fd_t)).
ZeroSlot ==
  [ state |-> UDS_FREE, sel_endpt |-> 0, sel_ops |-> {}, buf |-> << >>,
    pos |-> 0, size |-> 0, mode |-> {}, type |-> 0,
    backlog |-> [i \in 1 .. UDS_SOMAXCONN |-> 0], backlog_size |-> 0,
    listening |-> FALSE, peer |-> 0, child |-> 0,
    addr |-> ZeroAddr, source |-> ZeroAddr, target |-> ZeroAddr,
    suspended |-> UDS_NOT_SUSPENDED, susp_endpt |-> 0,
    susp_grant |-> GRANT_INVALID, susp_size |-> 0, susp_id |-> 0,
    err |-> 0 ]

VARIABLES fd, uds_exit_left, phase, acc, del, msgs, live, env

vars == << fd, uds_exit_left, phase, acc, del, msgs, live, env >>

\* The part of the state the helpers thread through a handler.
World ==
  [fd |-> fd, out |-> << >>, acc |-> acc, del |-> del, msgs |-> msgs,
   live |-> live, phase |-> phase]

\* panic() and a blown stack abort the handler where they happen.
Halted(w) == w.phase \in {"panic", "overflow"}

Panic(w) == [w EXCEPT !.phase = "panic"]

Emit(w, e) == [w EXCEPT !.out = Append(@, e)]

chardriver_reply_task(w, endpt, id, r) ==
  Emit(w, [k |-> "reply_task", endpt |-> endpt, id |-> id, r |-> r])

chardriver_reply_select(w, endpt, minor, ops) ==
  Emit(w, [k |-> "reply_select", endpt |-> endpt, minor |-> minor, ops |-> ops])

chardriver_terminate(w) ==
  [Emit(w, [k |-> "terminate"]) EXCEPT !.phase = "terminated"]

Ret(w, r) == [w |-> w, r |-> r]

Min(a, b) == IF a < b THEN a ELSE b

(***************************************************************************)
(* The ring buffer.  buf is indexed from 1: byte i of the C array is       *)
(* buf[i + 1].                                                             *)
(***************************************************************************)

\* How much can we get from the ring buffer?
ReadClamp(slot, size) == IF size > slot.size THEN slot.size ELSE size

\* The length of the first of the two segments of a copy at pos.
Subsize(pos, size) == IF UDS_BUF - pos > size THEN size ELSE UDS_BUF - pos

\* The bytes the two sys_safecopyto calls of a read hand to the requester.
RingRead(buf, pos, size) ==
  LET subsize == Subsize(pos, size)
  IN  [i \in 1 .. size |->
         IF i <= subsize THEN buf[pos + i] ELSE buf[i - subsize]]

\* A read that advances the tail and never resets it.
ReadAdvance_NoReset(slot, size) ==
  [slot EXCEPT !.pos = (slot.pos + size) % UDS_BUF, !.size = slot.size - size]

\* Advance the buffer tail; reset the position if the buffer is empty.
ReadAdvance(slot, size) ==
  LET left == slot.size - size
  IN  [slot EXCEPT !.pos = IF left = 0 THEN 0 ELSE (slot.pos + size) % UDS_BUF,
                   !.size = left]

\* A write that puts its data at the size, forgetting the tail.
WritePos_NoTail(slot) == slot.size % UDS_BUF

\* The head of the ring buffer, where a write puts its data.
WritePos(slot) == (slot.pos + slot.size) % UDS_BUF

\* One sys_safecopyfrom: n bytes from offset off of the grant to buf[at].
RingStore(buf, at, grant, off, n) ==
  [i \in 1 .. UDS_BUF |->
     IF at < i /\ i <= at + n THEN GrantByte(grant, off + i - at - 1)
     ELSE buf[i]]

\* How much can we add to the ring buffer?
WriteClamp(slot, size) ==
  IF size > UDS_BUF - slot.size THEN UDS_BUF - slot.size ELSE size

\* The occupied region of a ring buffer, oldest byte first.
Contents(slot) ==
  [i \in 1 .. slot.size |-> slot.buf[((slot.pos + i - 1) % UDS_BUF) + 1]]

(***************************************************************************)
(* History of the data path, kept beside the table: acc[h] is the bytes    *)
(* writes have put into h's buffer, del[h] the bytes reads on h have       *)
(* handed out, both with their common prefix removed (the history that     *)
(* already agrees is forgotten, the first disagreement is kept).  msgs[h]  *)
(* counts the writes that have bytes in h's buffer: 0, 1 or 2 for more.    *)
(***************************************************************************)
RECURSIVE Strip(_, _)
Strip(a, d) ==
  IF a # << >> /\ d # << >> /\ Head(a) = Head(d) THEN Strip(Tail(a), Tail(d))
  ELSE << a, d >>

LogRead(w, minor, data) ==
  LET p == Strip(w.acc[minor], w.del[minor] \o data)
  IN  [w EXCEPT !.acc[minor] = p[1], !.del[minor] = p[2],
                !.msgs[minor] = IF w.fd[minor].size = 0 THEN 0 ELSE @]

LogWrite(w, peer, data) ==
  [w EXCEPT !.acc[peer] = @ \o data,
            !.msgs[peer] = IF @ = 0 THEN 1 ELSE 2]

IsPrefix(d, a) == Len(d) <= Len(a) /\ \A i \in 1 .. Len(d) : d[i] = a[i]

(***************************************************************************)
(* uds_perform_write: the destination of a write.                          *)
(***************************************************************************)
IsConnOriented(slot) == slot.type = SOCK_STREAM \/ slot.type = SOCK_SEQPACKET

\* Locate the "peer" a datagram is written to: the first SOCK_DGRAM socket
\* that is bound on the target address, or -1.
DgramMatch_AnyPath(fdt, minor, i) ==
  fdt[i].type = SOCK_DGRAM /\ fdt[i].addr.family = AF_UNIX

DgramMatch(fdt, minor, i) ==
  /\ fdt[i].type = SOCK_DGRAM
  /\ fdt[i].addr.family = AF_UNIX
  /\ fdt[minor].target.path = fdt[i].addr.path

DgramPeer(fdt, minor) ==
  LET hits == {i \in Minors : DgramMatch(fdt, minor, i)}
  IN  IF hits = {} THEN -1
      ELSE CHOOSE i \in hits : \A j \in hits : i <= j

\* A gate that only looks at the buffer being full.
WriteBlocks_FullOnly(fdt, minor, peer) == fdt[peer].size = UDS_BUF

\* The ring buffer is already full, or the SEQPACKET message would not be
\* written to an empty buffer.
WriteBlocks(fdt, minor, peer) ==
  \/ fdt[peer].size = UDS_BUF
  \/ (fdt[minor].type = SOCK_SEQPACKET /\ fdt[peer].size > 0)

\* A driver that never discards a datagram.
DgramDrops_Never(fdt, minor, peer) == FALSE

\* A datagram is discarded when a packet is already waiting.
DgramDrops(fdt, minor, peer) ==
  fdt[minor].type = SOCK_DGRAM /\ fdt[peer].size > 0

\* A connection-oriented write that goes to the writer's own slot.
StreamPeer_Self(fdt, minor) ==
  IF fdt[minor].peer = -1 THEN -1 ELSE minor

\* The slot a write on a connection-oriented socket goes to.
StreamPeer(fdt, minor) == fdt[minor].peer

RECURSIVE uds_perform_read(_, _, _, _, _, _, _)
RECURSIVE uds_perform_write(_, _, _, _, _, _, _)
RECURSIVE uds_unsuspend(_, _, _)

(***************************************************************************)
(* uds_perform_read.  d counts the nested calls of uds_unsuspend.          *)
(***************************************************************************)
\* A read that leaves a blocked writer asleep.
ReadWake_Never(w, peer, d) == w

\* See if we can wake up a blocked writer.
ReadWake(w, peer, d) ==
  IF peer # -1 /\ w.fd[peer].suspended = UDS_SUSPENDED_WRITE
  THEN uds_unsuspend(w, peer, d)
  ELSE w

\* See if we can satisfy an ongoing select.
ReadSelect(w, minor, peer) ==
  IF Halted(w) THEN w
  ELSE IF /\ peer # -1
          /\ CDEV_OP_WR \in w.fd[peer].sel_ops
          /\ w.fd[minor].size < UDS_BUF
  THEN [chardriver_reply_select(w, w.fd[peer].sel_endpt, peer, {CDEV_OP_WR})
          EXCEPT !.fd[peer].sel_ops = @ \ {CDEV_OP_WR}]
  ELSE w

\* The table with the tail advanced and the bytes handed to the requester.
ReadTake(w, minor, size) ==
  Emit(LogRead([w EXCEPT !.fd[minor] = ReadAdvance(@, size)], minor,
               RingRead(w.fd[minor].buf, w.fd[minor].pos, size)),
       [k |-> "drain", minor |-> minor, n |-> size,
        pre |-> w.fd[minor].size])

ReadCopyOut(w, minor, endpt, grant, size, d) ==
  LET peer == w.fd[minor].peer
      subsize == Subsize(w.fd[minor].pos, size)
  IN
  IF ~safecopy_ok(grant, 0, subsize) THEN Ret(w, EFAULT)
  ELSE IF subsize < size /\ ~safecopy_ok(grant, subsize, size - subsize)
  THEN Ret(w, EFAULT)
  ELSE Ret(ReadSelect(ReadWake(ReadTake(w, minor, size), peer, d),
                      minor, peer),
           size)

uds_perform_read(w, minor, endpt, grant, size, pretend, d) ==
  LET s == w.fd[minor]
      peer == s.peer
  IN
  IF size = 0 THEN Ret(w, 0)
  ELSE IF UDS_R \notin s.mode THEN Ret(w, EPIPE)
  ELSE IF s.size = 0 THEN
    IF peer = -1 /\ IsConnOriented(s) THEN
      IF s.err = ECONNRESET
      THEN Ret(IF pretend THEN w ELSE [w EXCEPT !.fd[minor].err = 0],
               ECONNRESET)
      ELSE Ret(w, ENOTCONN)
    ELSE IF peer # -1 /\ UDS_W \notin w.fd[peer].mode THEN Ret(w, 0)
    ELSE IF pretend THEN Ret(w, EDONTREPLY)
    ELSE IF peer # -1 /\ w.fd[peer].suspended = UDS_SUSPENDED_WRITE
    THEN Ret(Panic(w), EDONTREPLY)
    ELSE Ret(w, EDONTREPLY)
  ELSE IF pretend THEN Ret(w, ReadClamp(s, size))
  ELSE ReadCopyOut(w, minor, endpt, grant, ReadClamp(s, size), d)

(***************************************************************************)
(* uds_perform_write.                                                      *)
(***************************************************************************)
\* Fill in the source address to be returned by recvfrom, recvmsg.
WriteSource(w, minor, peer) ==
  IF w.fd[minor].type = SOCK_DGRAM
  THEN [w EXCEPT !.fd[peer].source = w.fd[minor].addr]
  ELSE w

\* A write that leaves a blocked reader asleep.
WriteWake_Never(w, peer, d) == w

\* See if we can wake up a blocked reader.
WriteWake(w, peer, d) ==
  IF w.fd[peer].suspended = UDS_SUSPENDED_READ
  THEN uds_unsuspend(w, peer, d)
  ELSE w

\* See if we can satisfy an ongoing select.
WriteSelect(w, peer) ==
  IF Halted(w) THEN w
  ELSE IF CDEV_OP_RD \in w.fd[peer].sel_ops /\ w.fd[peer].size > 0
  THEN [chardriver_reply_select(w, w.fd[peer].sel_endpt, peer, {CDEV_OP_RD})
          EXCEPT !.fd[peer].sel_ops = @ \ {CDEV_OP_RD}]
  ELSE w

WriteCopyIn(w, minor, peer, endpt, grant, size, d) ==
  LET t == w.fd[peer]
      pos == WritePos(t)
      subsize == Subsize(pos, size)
      buf1 == RingStore(t.buf, pos, grant, 0, subsize)
      buf2 == RingStore(buf1, 0, grant, subsize, size - subsize)
  IN
  IF ~safecopy_ok(grant, 0, subsize) THEN Ret(w, EFAULT)
  ELSE IF subsize < size /\ ~safecopy_ok(grant, subsize, size - subsize)
  THEN Ret([w EXCEPT !.fd[peer].buf = buf1], EFAULT)
  ELSE
    Ret(WriteSelect(
          WriteWake(
            WriteSource(
              Emit(LogWrite([w EXCEPT !.fd[peer].buf =
                                         IF subsize < size THEN buf2 ELSE buf1,
                                      !.fd[peer].size = @ + size],
                            peer, GrantData(grant, 0, size)),
                   [k |-> "deposit", minor |-> minor, into |-> peer,
                    n |-> size, pre |-> t.size]),
              minor, peer),
            peer, d),
          peer),
        size)

WriteTo(w, minor, peer, endpt, grant, size, pretend, d) ==
  \* Check if we write to a closed pipe.
  IF UDS_R \notin w.fd[peer].mode THEN Ret(w, EPIPE)
  \* A waiting datagram is kept; the new one is discarded silently.
  ELSE IF DgramDrops(w.fd, minor, peer) THEN Ret(w, size)
  ELSE IF WriteBlocks(w.fd, minor, peer) THEN
    IF pretend THEN Ret(w, EDONTREPLY)
    ELSE IF w.fd[peer].suspended = UDS_SUSPENDED_READ
    THEN Ret(Panic(w), EDONTREPLY)
    ELSE Ret(w, EDONTREPLY)
  ELSE IF pretend THEN Ret(w, WriteClamp(w.fd[peer], size))
  ELSE WriteCopyIn(w, minor, peer, endpt, grant,
                   WriteClamp(w.fd[peer], size), d)

uds_perform_write(w, minor, endpt, grant, size, pretend, d) ==
  LET s == w.fd[minor]
  IN
  IF size = 0 THEN Ret(w, 0)
  ELSE IF UDS_W \notin s.mode THEN Ret(w, EPIPE)
  ELSE IF size > UDS_BUF /\ s.type # SOCK_STREAM THEN Ret(w, EMSGSIZE)
  ELSE IF IsConnOriented(s) THEN
    LET peer == StreamPeer(w.fd, minor)
    IN
    IF peer = -1 THEN
      IF s.err = ECONNRESET
      THEN Ret(IF pretend THEN w ELSE [w EXCEPT !.fd[minor].err = 0],
               ECONNRESET)
      ELSE Ret(w, ENOTCONN)
    ELSE IF w.fd[peer].peer = -1 THEN Ret(w, EDONTREPLY)
    ELSE WriteTo(w, minor, peer, endpt, grant, size, pretend, d)
  ELSE
    LET peer == DgramPeer(w.fd, minor)
    IN
    IF peer = -1 THEN Ret(w, ENOENT)
    ELSE WriteTo(w, minor, peer, endpt, grant, size, pretend, d)

(***************************************************************************)
(* uds_unsuspend.                                                          *)
(***************************************************************************)
\* An unsuspend that replies and leaves the slot suspended.
UnsuspendReply_Keep(w, minor, r) ==
  chardriver_reply_task(w, w.fd[minor].susp_endpt, w.fd[minor].susp_id, r)

\* chardriver_reply_task(...); fdp->suspended = UDS_NOT_SUSPENDED;
UnsuspendReply(w, minor, r) ==
  [chardriver_reply_task(w, w.fd[minor].susp_endpt, w.fd[minor].susp_id, r)
     EXCEPT !.fd[minor].suspended = UDS_NOT_SUSPENDED]

\* if (r == EDONTREPLY) return; otherwise reply and clear the suspension.
UnsuspendDone(x, minor) ==
  IF Halted(x.w) \/ x.r = EDONTREPLY THEN x.w
  ELSE UnsuspendReply(x.w, minor, x.r)

uds_unsuspend(w, minor, d) ==
  LET fdp == w.fd[minor]
  IN
  IF d >= MaxDepth THEN [w EXCEPT !.phase = "overflow"]
  ELSE IF fdp.suspended = UDS_SUSPENDED_READ THEN
    UnsuspendDone(uds_perform_read(w, minor, fdp.susp_endpt, fdp.susp_grant,
                                   fdp.susp_size, FALSE, d + 1),
                  minor)
  ELSE IF fdp.suspended = UDS_SUSPENDED_WRITE THEN
    UnsuspendDone(uds_perform_write(w, minor, fdp.susp_endpt, fdp.susp_grant,
                                    fdp.susp_size, FALSE, d + 1),
                  minor)
  ELSE IF fdp.suspended \in {UDS_SUSPENDED_CONNECT, UDS_SUSPENDED_ACCEPT}
  THEN UnsuspendReply([w EXCEPT !.fd[minor].err = 0], minor, fdp.err)
  ELSE Panic(w)

(***************************************************************************)
(* uds_cancel, uds_reset.                                                  *)
(***************************************************************************)
\* A cancel that leaves the server's child in place.
CancelAccept_Keep(fdt, minor) == fdt

\* A partial accept() only sets the server's child.
CancelAccept(fdt, minor) ==
  [i \in Minors |->
     IF fdt[i].child = minor THEN [fdt[i] EXCEPT !.child = -1] ELSE fdt[i]]

uds_cancel(w, minor, endpt, id) ==
  IF minor < 0 \/ minor >= NR_FDS THEN Ret(w, EDONTREPLY)
  ELSE
    LET fdp == w.fd[minor]
    IN
    IF fdp.state # UDS_INUSE THEN Ret(w, EDONTREPLY)
    ELSE IF \/ fdp.suspended = UDS_NOT_SUSPENDED
            \/ fdp.susp_endpt # endpt
            \/ fdp.susp_id # id
    THEN Ret(w, EDONTREPLY)
    ELSE
      LET w1 == IF fdp.suspended = UDS_SUSPENDED_ACCEPT
                THEN [w EXCEPT !.fd = CancelAccept(@, minor)]
                ELSE w
      IN  Ret([w1 EXCEPT !.fd[minor].suspended = UDS_NOT_SUSPENDED], EINTR)

\* If a process was blocked on I/O, revive it.
ResetWake(w, minor) ==
  IF w.fd[minor].suspended # UDS_NOT_SUSPENDED
  THEN uds_unsuspend(w, minor, 0)
  ELSE w

\* All of the peer's calls will fail immediately now.
ResetSelect(w, minor) ==
  IF Halted(w) THEN w
  ELSE IF w.fd[minor].sel_ops # {}
  THEN [chardriver_reply_select(w, w.fd[minor].sel_endpt, minor,
                                w.fd[minor].sel_ops)
          EXCEPT !.fd[minor].sel_ops = {}]
  ELSE w

\* A reset that disconnects the socket and leaves no error behind.
uds_reset_NoErr(w, minor) ==
  ResetWake([w EXCEPT !.fd[minor].peer = -1], minor)

uds_reset(w, minor) ==
  ResetSelect(ResetWake([w EXCEPT !.fd[minor].peer = -1,
                                  !.fd[minor].err = ECONNRESET],
                        minor),
              minor)

(***************************************************************************)
(* The control plane, uds_do_ioctl.  It links and unlinks sockets; the     *)
(* data path only relies on the linkage it leaves behind.  A request is a  *)
(* record [k, type, path, other, how].                                     *)
(***************************************************************************)
NoReq == [k |-> "none", type |-> 0, path |-> 0, other |-> 0, how |-> {}]

IoReq(k, type, path, other, how) ==
  [k |-> k, type |-> type, path |-> path, other |-> other, how |-> how]

\* The first listening socket of the type bound on path, or -1.
ServerAt(fdt, type, path) ==
  LET hits == {i \in Minors : /\ fdt[i].state = UDS_INUSE
                              /\ fdt[i].listening
                              /\ fdt[i].type = type
                              /\ fdt[i].addr.family = AF_UNIX
                              /\ fdt[i].addr.path = path}
  IN  IF hits = {} THEN -1 ELSE CHOOSE i \in hits : \A j \in hits : i <= j

\* The first entry of a backlog that holds v, or 0.
BacklogIndex(slot, v) ==
  LET hits == {i \in 1 .. slot.backlog_size : slot.backlog[i] = v}
  IN  IF hits = {} THEN 0 ELSE CHOOSE i \in hits : \A j \in hits : i <= j

\* The first occupied entry of a backlog, or 0.
BacklogFirst(slot) ==
  LET hits == {i \in 1 .. slot.backlog_size : slot.backlog[i] # -1}
  IN  IF hits = {} THEN 0 ELSE CHOOSE i \in hits : \A j \in hits : i <= j

\* Link two sockets as connected peers.
Pair(w, a, b) == [w EXCEPT !.fd[a].peer = b, !.fd[b].peer = a]

\* Complete a pairing: revive the pending operation of the other side.
Revive(w, other) ==
  IF w.fd[other].suspended # UDS_NOT_SUSPENDED
  THEN uds_unsuspend(w, other, 0)
  ELSE w

do_socket(w, minor, type) ==
  IF w.fd[minor].type # TYPE_UNSET \/ type \notin SockTypes
  THEN Ret(w, EINVAL)
  ELSE Ret([w EXCEPT !.fd[minor].type = type], OK)

do_bind(w, minor, path) ==
  IF w.fd[minor].type = TYPE_UNSET \/ w.fd[minor].addr.family = AF_UNIX
  THEN Ret(w, EINVAL)
  ELSE Ret([w EXCEPT !.fd[minor].addr = [family |-> AF_UNIX, path |-> path]],
           OK)

do_target(w, minor, path) ==
  IF w.fd[minor].type # SOCK_DGRAM THEN Ret(w, EINVAL)
  ELSE Ret([w EXCEPT !.fd[minor].target = [family |-> AF_UNIX, path |-> path]],
           OK)

do_listen(w, minor) ==
  LET s == w.fd[minor]
  IN  IF \/ ~IsConnOriented(s)
         \/ s.addr.family # AF_UNIX
         \/ s.peer # -1
         \/ s.suspended # UDS_NOT_SUSPENDED
      THEN Ret(w, EINVAL)
      ELSE Ret([w EXCEPT !.fd[minor].listening = TRUE], OK)

do_socketpair(w, minor, other) ==
  LET s == w.fd[minor]
      t == w.fd[other]
  IN  IF \/ other = minor
         \/ t.state # UDS_INUSE
         \/ ~IsConnOriented(s) \/ s.type # t.type
         \/ s.peer # -1 \/ t.peer # -1
         \/ s.listening \/ t.listening
         \/ s.suspended # UDS_NOT_SUSPENDED
         \/ t.suspended # UDS_NOT_SUSPENDED
      THEN Ret(w, EINVAL)
      ELSE Ret(Pair(w, minor, other), OK)

do_connect(w, minor, path) ==
  LET s == w.fd[minor]
      srv == ServerAt(w.fd, s.type, path)
  IN
  IF \/ ~IsConnOriented(s) \/ s.peer # -1 \/ s.listening
     \/ s.suspended # UDS_NOT_SUSPENDED
  THEN Ret(w, EINVAL)
  ELSE IF srv = -1 THEN Ret(w, ECONNREFUSED)
  ELSE IF w.fd[srv].child # -1 THEN
    \* A socket is blocked in accept on the server: pair with it now.
    LET c == w.fd[srv].child
        w1 == [Pair(w, minor, c) EXCEPT !.fd[srv].child = -1]
    IN  Ret(Revive(w1, c), OK)
  ELSE
    LET j == BacklogIndex(w.fd[srv], -1)
    IN  IF j = 0 THEN Ret(w, ECONNREFUSED)
        ELSE
          LET w1 == [w EXCEPT !.fd[srv].backlog[j] = minor,
                              !.fd[minor].peer = srv,
                              !.fd[minor].suspended = UDS_SUSPENDED_CONNECT]
              \* A select for reading on the server is satisfied now.
              w2 == IF CDEV_OP_RD \in w1.fd[srv].sel_ops
                    THEN [chardriver_reply_select(w1, w1.fd[srv].sel_endpt,
                                                  srv, {CDEV_OP_RD})
                            EXCEPT !.fd[srv].sel_ops = @ \ {CDEV_OP_RD}]
                    ELSE w1
          IN  Ret(w2, EDONTREPLY)

do_accept(w, minor, path) ==
  LET s == w.fd[minor]
      hits == {i \in Minors : /\ w.fd[i].state = UDS_INUSE
                              /\ w.fd[i].listening
                              /\ w.fd[i].addr.family = AF_UNIX
                              /\ w.fd[i].addr.path = path}
      srv == IF hits = {} THEN -1 ELSE CHOOSE i \in hits : \A j \in hits : i <= j
  IN
  IF s.type # TYPE_UNSET \/ s.suspended # UDS_NOT_SUSPENDED
  THEN Ret(w, EINVAL)
  ELSE IF srv = -1 \/ w.fd[srv].child # -1 THEN Ret(w, EINVAL)
  ELSE
    LET w0 == [w EXCEPT !.fd[minor].type = w.fd[srv].type]
        j == BacklogFirst(w0.fd[srv])
    IN
    IF j = 0 THEN
      Ret([w0 EXCEPT !.fd[srv].child = minor,
                     !.fd[minor].suspended = UDS_SUSPENDED_ACCEPT],
          EDONTREPLY)
    ELSE
      LET c == w0.fd[srv].backlog[j]
          w1 == [Pair(w0, minor, c) EXCEPT !.fd[srv].backlog[j] = -1]
      IN  Ret(Revive(w1, c), OK)

do_shutdown(w, minor, how) ==
  IF w.fd[minor].type = TYPE_UNSET THEN Ret(w, EINVAL)
  ELSE Ret([w EXCEPT !.fd[minor].mode = @ \ how], OK)

uds_do_ioctl(w, minor, request, endpt, grant) ==
  CASE request.k = "socket" -> do_socket(w, minor, request.type)
    [] request.k = "bind" -> do_bind(w, minor, request.path)
    [] request.k = "target" -> do_target(w, minor, request.path)
    [] request.k = "listen" -> do_listen(w, minor)
    [] request.k = "socketpair" -> do_socketpair(w, minor, request.other)
    [] request.k = "connect" -> do_connect(w, minor, request.path)
    [] request.k = "accept" -> do_accept(w, minor, request.path)
    [] request.k = "shutdown" -> do_shutdown(w, minor, request.how)
    [] OTHER -> Ret(w, EINVAL)

(***************************************************************************)
(* The handlers of uds_tab.  Each takes the world and the request and      *)
(* gives the world after the handler and the value it returns.             *)
(***************************************************************************)

\* The smallest minor >= 1 whose slot is free, or NR_FDS.
FirstFree(fdt) ==
  LET free == {m \in 1 .. (NR_FDS - 1) : fdt[m].state = UDS_FREE}
  IN  IF free = {} THEN NR_FDS ELSE CHOOSE m \in free : \A n \in free : m <= n

\* The initial parameters uds_open sets; err and the susp_ fields are left
\* as the memset of uds_init or uds_close left them.
OpenSlot(slot) ==
  [slot EXCEPT !.state = UDS_INUSE, !.sel_endpt = NONE, !.sel_ops = {},
               !.buf = [i \in 1 .. UDS_BUF |-> 0], !.pos = 0, !.size = 0,
               !.mode = {UDS_R, UDS_W}, !.type = TYPE_UNSET,
               !.backlog = [i \in 1 .. UDS_SOMAXCONN |-> -1],
               !.backlog_size = UDS_SOMAXCONN,
               !.listening = FALSE, !.peer = -1, !.child = -1,
               !.addr = ZeroAddr, !.source = ZeroAddr, !.target = ZeroAddr,
               !.suspended = UDS_NOT_SUSPENDED]

uds_open(w, mmap_ok) ==
  LET minor == FirstFree(w.fd)
  IN  IF minor = NR_FDS THEN Ret(w, ENFILE)
      ELSE IF ~mmap_ok THEN Ret(w, ENOMEM)
      ELSE Ret([w EXCEPT !.fd[minor] = OpenSlot(@),
                         !.acc[minor] = << >>, !.del[minor] = << >>,
                         !.msgs[minor] = 0],
               minor)

\* Connecting socket: clear from server's backlog.
BacklogClear(slot, minor) ==
  LET i == BacklogIndex(slot, minor)
  IN  IF i = 0 THEN slot ELSE [slot EXCEPT !.backlog[i] = -1]

\* A listener that disconnects the first socket of its backlog only.
ResetBacklog_FirstOnly(w, minor, i) ==
  IF w.fd[minor].backlog[1] # -1
  THEN uds_reset(w, w.fd[minor].backlog[1])
  ELSE w

\* Listening socket: disconnect all sockets in the backlog.
RECURSIVE ResetBacklog(_, _, _)
ResetBacklog(w, minor, i) ==
  IF i > w.fd[minor].backlog_size \/ Halted(w) THEN w
  ELSE ResetBacklog(IF w.fd[minor].backlog[i] # -1
                    THEN uds_reset(w, w.fd[minor].backlog[i])
                    ELSE w,
                    minor, i + 1)

CloseLinks(w, minor) ==
  LET peer == w.fd[minor].peer
  IN
  IF peer # -1 /\ w.fd[peer].peer = -1 THEN
    IF ~w.fd[peer].listening THEN Panic(w)
    ELSE [w EXCEPT !.fd[peer] = BacklogClear(@, minor)]
  ELSE IF peer # -1 THEN uds_reset(w, peer)
  ELSE IF w.fd[minor].listening THEN ResetBacklog(w, minor, 1)
  ELSE w

\* Release the ring buffer, set the socket back to UDS_FREE.
CloseFree(w, minor) ==
  IF Halted(w) THEN w
  ELSE [w EXCEPT !.fd[minor] = ZeroSlot,
                 !.acc[minor] = << >>, !.del[minor] = << >>,
                 !.msgs[minor] = 0, !.live = @ \ {minor}]

\* A close that leaves uds_exit_left as it is.
CloseExit_NoCount(w, left) ==
  [w |-> w, r |-> IF Halted(w) THEN EDONTREPLY ELSE OK, left |-> left]

\* If terminating, and this was the last open socket, exit now.
CloseExit(w, left) ==
  IF Halted(w) THEN [w |-> w, r |-> EDONTREPLY, left |-> left]
  ELSE IF left > 0
  THEN [w |-> IF left - 1 = 0 THEN chardriver_terminate(w) ELSE w,
        r |-> OK, left |-> left - 1]
  ELSE [w |-> w, r |-> OK, left |-> left]

\* The world and uds_exit_left after uds_close.
uds_close(w, left, minor) ==
  IF minor < 0 \/ minor >= NR_FDS THEN [w |-> w, r |-> ENXIO, left |-> left]
  ELSE IF w.fd[minor].state # UDS_INUSE
  THEN [w |-> w, r |-> EINVAL, left |-> left]
  ELSE CloseExit(CloseFree(CloseLinks(w, minor), minor), left)

\* Check for pending connections.
BacklogPending(slot) ==
  \E i \in 1 .. slot.backlog_size : slot.backlog[i] # -1

\* The ready operations, given what the two pretended calls return.
SelectMask(slot, ops, rd, wr) ==
  LET rdy == IF rd > 0 THEN TRUE
             ELSE IF slot.listening THEN BacklogPending(slot)
             ELSE rd # EDONTREPLY
  IN  (IF CDEV_OP_RD \in ops /\ rdy THEN {CDEV_OP_RD} ELSE {})
        \cup (IF CDEV_OP_WR \in ops /\ wr # 0 /\ wr # EDONTREPLY
              THEN {CDEV_OP_WR} ELSE {})

SelectReady(w, minor, ops) ==
  SelectMask(w.fd[minor], ops,
             uds_perform_read(w, minor, NONE, GRANT_INVALID, 1, TRUE, 0).r,
             uds_perform_write(w, minor, NONE, GRANT_INVALID, 1, TRUE, 0).r)

\* r is an error or OK; ready is the mask the handler returns with OK.
SelRet(w, r, ready) == [w |-> w, r |-> r, ready |-> ready]

\* A select that remembers the ops that are not ready, asked to or not.
SelectWatch_Always(w, minor, ops, watch, endpt, ready_ops) ==
  SelRet([w EXCEPT !.fd[minor].sel_endpt = endpt,
                   !.fd[minor].sel_ops = @ \cup (ops \ ready_ops)],
         OK, ready_ops)

\* If not all requested ops were ready, and the call should notify the
\* caller when they become ready, remember them.
SelectWatch(w, minor, ops, watch, endpt, ready_ops) ==
  IF ops \ ready_ops # {} /\ watch
  THEN SelRet([w EXCEPT !.fd[minor].sel_endpt = endpt,
                        !.fd[minor].sel_ops = @ \cup (ops \ ready_ops)],
              OK, ready_ops)
  ELSE SelRet(w, OK, ready_ops)

uds_select(w, minor, ops0, endpt) ==
  IF minor < 0 \/ minor >= NR_FDS THEN SelRet(w, ENXIO, {})
  ELSE IF w.fd[minor].state # UDS_INUSE THEN SelRet(w, EINVAL, {})
  ELSE
    SelectWatch(w, minor, ops0 \cap {CDEV_OP_RD, CDEV_OP_WR, CDEV_OP_ERR},
                CDEV_NOTIFY \in ops0, endpt,
                SelectReady(w, minor,
                            ops0 \cap {CDEV_OP_RD, CDEV_OP_WR, CDEV_OP_ERR}))

\* A wrapper that suspends the caller whether or not the call may block.
Suspend_Always(w, minor, kind, endpt, grant, size, id, nonblock, again) ==
  Ret([w EXCEPT !.fd[minor].suspended = kind,
                !.fd[minor].susp_endpt = endpt,
                !.fd[minor].susp_grant = grant,
                !.fd[minor].susp_size = size,
                !.fd[minor].susp_id = id],
      EDONTREPLY)

\* If the call couldn't complete, suspend the caller; if the call wasn't
\* supposed to block, cancel immediately.
Suspend(w, minor, kind, endpt, grant, size, id, nonblock, again) ==
  LET w1 == [w EXCEPT !.fd[minor].suspended = kind,
                      !.fd[minor].susp_endpt = endpt,
                      !.fd[minor].susp_grant = grant,
                      !.fd[minor].susp_size = size,
                      !.fd[minor].susp_id = id]
  IN  IF nonblock THEN Ret(uds_cancel(w1, minor, endpt, id).w, again)
      ELSE Ret(w1, EDONTREPLY)

\* if (rc == EDONTREPLY) suspend the caller, else return rc.
OrSuspend(x, minor, kind, endpt, grant, size, id, nonblock) ==
  IF ~Halted(x.w) /\ x.r = EDONTREPLY
  THEN Suspend(x.w, minor, kind, endpt, grant, size, id, nonblock, EAGAIN)
  ELSE x

\* The same for an IOCTL: the handler has set the suspension type already.
IoctlSuspend(x, minor, endpt, grant, id, nonblock) ==
  LET s == x.w.fd[minor].suspended
  IN  IF Halted(x.w) \/ x.r # EDONTREPLY THEN x
      ELSE IF s = UDS_NOT_SUSPENDED THEN Ret(Panic(x.w), EDONTREPLY)
      ELSE Suspend(x.w, minor, s, endpt, grant, 0, id, nonblock,
                   IF s = UDS_SUSPENDED_CONNECT THEN EINPROGRESS ELSE EAGAIN)

uds_read(w, minor, endpt, grant, size, nonblock, id) ==
  IF minor < 0 \/ minor >= NR_FDS THEN Ret(w, ENXIO)
  ELSE IF w.fd[minor].state # UDS_INUSE THEN Ret(w, EINVAL)
  ELSE OrSuspend(uds_perform_read(w, minor, endpt, grant, size, FALSE, 0),
                 minor, UDS_SUSPENDED_READ, endpt, grant, size, id, nonblock)

uds_write(w, minor, endpt, grant, size, nonblock, id) ==
  IF minor < 0 \/ minor >= NR_FDS THEN Ret(w, ENXIO)
  ELSE IF w.fd[minor].state # UDS_INUSE THEN Ret(w, EINVAL)
  ELSE OrSuspend(uds_perform_write(w, minor, endpt, grant, size, FALSE, 0),
                 minor, UDS_SUSPENDED_WRITE, endpt, grant, size, id, nonblock)

uds_ioctl(w, minor, request, endpt, grant, nonblock, id) ==
  IF minor < 0 \/ minor >= NR_FDS THEN Ret(w, ENXIO)
  ELSE IF w.fd[minor].state # UDS_INUSE THEN Ret(w, EINVAL)
  ELSE IoctlSuspend(uds_do_ioctl(w, minor, request, endpt, grant),
                    minor, endpt, grant, id, nonblock)

(***************************************************************************)
(* The state machine.  A step is one request of the transport, or SIGTERM. *)
(*                                                                         *)
(* env names the workload the clients of the driver run; it is chosen at   *)
(* the start and bounds the requests they send: how many sockets they keep *)
(* open, of which type, which control requests they use and how many bytes *)
(* they move.  The handlers are the same under every workload.             *)
(***************************************************************************)
Workload(socks, types, reqs, paths, sizes, starts, short, selops, cancels) ==
  [socks |-> socks, types |-> types, reqs |-> reqs, paths |-> paths,
   sizes |-> sizes, starts |-> starts, short |-> short, selops |-> selops,
   cancels |-> cancels]

Workloads ==
  [ stream |->
      Workload(2, {SOCK_STREAM}, {"socket", "socketpair"}, {}, Sizes,
               1 .. NBytes, {0}, {}, TRUE),
    seqpacket |->
      Workload(2, {SOCK_SEQPACKET}, {"socket", "socketpair"}, {}, Sizes,
               1 .. NBytes, {0}, {}, TRUE),
    dgram |->
      Workload(2, {SOCK_DGRAM}, {"socket", "bind", "target"}, Paths, Sizes,
               {1}, {0}, {}, FALSE),
    fault |->
      Workload(2, {SOCK_STREAM}, {"socket", "socketpair"}, {}, {1, 2},
               {1}, {0, 1}, {}, FALSE),
    listen |->
      Workload(3, {SOCK_STREAM},
               {"socket", "bind", "listen", "connect"}, {1},
               {1}, {1}, {0}, {}, TRUE),
    accept |->
      Workload(3, {SOCK_STREAM},
               {"socket", "bind", "listen", "connect", "accept"}, {1},
               {}, {1}, {0}, {}, TRUE),
    select |->
      Workload(2, {SOCK_STREAM}, {"socket", "socketpair", "shutdown"}, {},
               {1}, {1}, {0},
               {{CDEV_OP_RD, CDEV_NOTIFY}, {CDEV_OP_WR, CDEV_NOTIFY},
                {CDEV_OP_RD, CDEV_OP_WR}},
               FALSE),
    notify |->
      Workload(2, {SOCK_SEQPACKET}, {"socket", "socketpair"}, {}, {1, 2},
               {1}, {0},
               {{CDEV_OP_RD, CDEV_NOTIFY}, {CDEV_OP_WR, CDEV_NOTIFY}},
               FALSE),
    drain |->
      Workload(NR_FDS, {SOCK_STREAM, SOCK_DGRAM}, {"socket"}, {}, {}, {},
               {0}, {}, FALSE) ]

WL == Workloads[env]

ReqMinors == 0 .. NR_FDS

(***************************************************************************)
(* The susp_ fields of a slot that is not suspended are dead: every read   *)
(* of them (uds_unsuspend, uds_cancel) comes after a test that the slot is *)
(* suspended, and every suspension writes them anew.  Between two requests *)
(* the table keeps them at zero, so that states which differ only in dead  *)
(* fields are one state.  Within a handler they are as the code has them.  *)
(***************************************************************************)
Settle(slot) ==
  IF slot.suspended = UDS_NOT_SUSPENDED
  THEN [slot EXCEPT !.susp_endpt = 0, !.susp_grant = GRANT_INVALID,
                    !.susp_size = 0, !.susp_id = 0]
  ELSE slot

Commit(w) ==
  /\ fd' = [m \in Minors |-> Settle(w.fd[m])]
  /\ acc' = w.acc
  /\ del' = w.del
  /\ msgs' = w.msgs
  /\ live' = w.live
  /\ phase' = w.phase
  /\ env' = env

CommitClose(x) ==
  /\ Commit(x.w)
  /\ uds_exit_left' = x.left

InitTable ==
  /\ fd = [m \in Minors |-> ZeroSlot]
  /\ uds_exit_left = 0
  /\ phase = "run"
  /\ acc = [m \in Minors |-> << >>]
  /\ del = [m \in Minors |-> << >>]
  /\ msgs = [m \in Minors |-> 0]
  /\ live = {}

Init == InitTable /\ env \in DOMAIN Workloads

\* uds_exit_left after a SIGTERM: the number of sockets in use.
CountInUse(fdt) == Cardinality({i \in Minors : fdt[i].state = UDS_INUSE})

\* The grant of a request for size bytes: it covers them, or falls short.
Grants(starts, size, short) ==
  {[start |-> st, len |-> size - k] :
     st \in starts, k \in IF size > 0 THEN short ELSE {0}}

InUse == {m \in Minors : fd[m].state = UDS_INUSE}

Open ==
  /\ phase = "run"
  /\ CountInUse(fd) < WL.socks
  /\ \E mmap_ok \in BOOLEAN :
       LET x == uds_open(World, mmap_ok)
       IN  Commit(x.w)
  /\ UNCHANGED uds_exit_left

Close ==
  /\ phase = "run"
  /\ \E minor \in ReqMinors :
       CommitClose(uds_close(World, uds_exit_left, minor))

Read ==
  /\ phase = "run"
  /\ \E minor \in ReqMinors, endpt \in Endpts, size \in WL.sizes \cup {0},
        nb \in BOOLEAN, id \in Ids :
       \E grant \in Grants({0}, size, WL.short) :
         /\ minor \notin InUse => (size = 0 /\ ~nb /\ id = 1 /\ endpt = 1)
         /\ LET x == uds_read(World, minor, endpt, grant, size, nb, id)
            IN  Commit(x.w)
  /\ UNCHANGED uds_exit_left

Write ==
  /\ phase = "run"
  /\ \E minor \in ReqMinors, endpt \in Endpts, size \in WL.sizes \cup {0},
        nb \in BOOLEAN, id \in Ids :
       \E grant \in Grants(WL.starts, size, WL.short) :
         /\ minor \notin InUse => (size = 0 /\ ~nb /\ id = 1 /\ endpt = 1)
         /\ LET x == uds_write(World, minor, endpt, grant, size, nb, id)
            IN  Commit(x.w)
  /\ UNCHANGED uds_exit_left

Requests ==
  {IoReq("socket", t, 0, 0, {}) : t \in WL.types}
    \cup {IoReq(k, 0, p, 0, {}) :
            k \in WL.reqs \cap {"bind", "target", "connect", "accept"},
            p \in WL.paths}
    \cup {IoReq(k, 0, 0, 0, {}) : k \in WL.reqs \cap {"listen"}}
    \cup {IoReq(k, 0, 0, o, {}) :
            k \in WL.reqs \cap {"socketpair"}, o \in 1 .. (NR_FDS - 1)}
    \cup {IoReq(k, 0, 0, 0, h) :
            k \in WL.reqs \cap {"shutdown"},
            h \in {{UDS_R}, {UDS_W}, {UDS_R, UDS_W}}}

Ioctl ==
  /\ phase = "run"
  /\ \E minor \in ReqMinors, request \in Requests, endpt \in Endpts,
        nb \in BOOLEAN, id \in Ids :
       /\ minor \notin InUse => (id = 1 /\ endpt = 1)
       /\ nb => request.k \in {"connect", "accept"}
       /\ LET x == uds_ioctl(World, minor, request, endpt, GRANT_INVALID,
                             nb, id)
          IN  Commit(x.w)
  /\ UNCHANGED uds_exit_left

Select ==
  /\ phase = "run"
  /\ \E minor \in ReqMinors, endpt \in Endpts, ops \in WL.selops :
       LET x == uds_select(World, minor, ops, endpt)
       IN  Commit(x.w)
  /\ UNCHANGED uds_exit_left

\* A cancel may name a request the driver does not hold (id 0).
Cancel ==
  /\ phase = "run"
  /\ WL.cancels
  /\ \E minor \in ReqMinors, endpt \in Endpts, id \in Ids \cup {0} :
       LET x == uds_cancel(World, minor, endpt, id)
       IN  Commit(x.w)
  /\ UNCHANGED uds_exit_left

\* The world after uds_signal(SIGTERM); live notes the sockets it counted.
uds_signal(w) ==
  LET v == [w EXCEPT !.live = {i \in Minors : w.fd[i].state = UDS_INUSE}]
  IN  IF CountInUse(w.fd) = 0 THEN chardriver_terminate(v) ELSE v

\* uds_signal(SIGTERM): only exit once all sockets have been closed.
Signal ==
  /\ phase = "run"
  /\ uds_exit_left' = CountInUse(fd)
  /\ Commit(uds_signal(World))

\* A SIGTERM that arrives while the driver is not yet draining.
SignalOnce ==
  /\ uds_exit_left = 0
  /\ Signal

Next == Open \/ Close \/ Read \/ Write \/ Ioctl \/ Select \/ Cancel \/ Signal

Spec == Init /\ [][Next]_vars

(***************************************************************************)
(* The driver under one workload.                                          *)
(***************************************************************************)
NextData == Open \/ Close \/ Read \/ Write \/ Ioctl \/ Cancel

NextFault == Open \/ Close \/ Read \/ Write \/ Ioctl

NextSelect == Open \/ Close \/ Read \/ Write \/ Ioctl \/ Select

NextDrain == Open \/ Close \/ Ioctl \/ Signal

NextDrainOnce == Open \/ Close \/ Ioctl \/ SignalOnce

InitStream == InitTable /\ env \in {"stream", "fault"}

SpecStream == InitStream /\ [][NextData]_vars

InitData == InitTable /\ env \in {"seqpacket", "dgram", "fault"}

SpecData == InitData /\ [][NextData]_vars

InitPair == InitTable /\ env \in {"stream", "seqpacket"}

SpecPair == InitPair /\ [][NextData]_vars

InitSeqpacket == InitTable /\ env = "seqpacket"

SpecSeqpacket == InitSeqpacket /\ [][NextData]_vars

InitDgram == InitTable /\ env = "dgram"

SpecDgram == InitDgram /\ [][NextFault]_vars

InitFault == InitTable /\ env = "fault"

SpecFault == InitFault /\ [][NextFault]_vars

InitListen == InitTable /\ env = "listen"

SpecListen == InitListen /\ [][NextData]_vars

InitLink == InitTable /\ env \in {"listen", "accept"}

SpecLink == InitLink /\ [][NextData]_vars

InitAccept == InitTable /\ env = "accept"

SpecAccept == InitAccept /\ [][NextData]_vars

InitSelect == InitTable /\ env = "select"

SpecSelect == InitSelect /\ [][NextSelect]_vars

InitNotify == InitTable /\ env = "notify"

SpecNotify == InitNotify /\ [][NextSelect]_vars

InitDrain == InitTable /\ env = "drain"

SpecDrain == InitDrain /\ [][NextDrain]_vars

\* Draining after one SIGTERM, with clients that go on closing sockets for
\* as long as one is open.
InitDrainLive == InitTable /\ env = "drain"

SpecDrainLive == InitDrainLive /\ [][NextDrainOnce]_vars /\ WF_vars(Close)

(***************************************************************************)
(* Properties.  A property of a handler is stated for every reachable      *)
(* table and every request: the handler is applied to the table and its    *)
(* result examined.                                                        *)
(***************************************************************************)
FullGrant(start, size) == [start |-> start, len |-> size]

Connected(a, b) ==
  /\ a \in InUse /\ b \in InUse /\ a # b
  /\ fd[a].peer = b /\ fd[b].peer = a

\* The events of one kind a handler left in out.
Events(w, k) == {i \in 1 .. Len(w.out) : w.out[i].k = k}

\* C1: on a STREAM socket the bytes the reads have returned are a prefix of
\* the bytes the writes have put into its buffer, in write order, and what
\* was written and not yet read is the occupied region of the ring, oldest
\* byte first, also when the region wraps past the end of the ring.
C1_StreamOrder ==
  \A h \in Minors :
    (fd[h].state = UDS_INUSE /\ fd[h].type = SOCK_STREAM) =>
      /\ IsPrefix(del[h], acc[h])
      /\ acc[h] = del[h] \o Contents(fd[h])

\* A full buffer whose occupied region wraps, with the writer suspended on it.
C1_Witness ==
  \E a, b \in Minors :
    /\ Connected(a, b)
    /\ fd[b].type = SOCK_STREAM
    /\ fd[b].pos + fd[b].size > UDS_BUF
    /\ fd[a].suspended = UDS_SUSPENDED_WRITE

\* C2: every socket in use has size <= UDS_BUF, pos < UDS_BUF, and pos = 0
\* when its buffer is empty.
C2_RingBounds ==
  \A h \in Minors :
    fd[h].state = UDS_INUSE =>
      /\ 0 <= fd[h].size /\ fd[h].size <= UDS_BUF
      /\ 0 <= fd[h].pos /\ fd[h].pos < UDS_BUF
      /\ (fd[h].size = 0 => fd[h].pos = 0)

\* A full buffer whose tail has moved: reads and writes have gone round.
C2_Witness ==
  \E h \in InUse : fd[h].pos > 0 /\ fd[h].size = UDS_BUF

\* C3: a read of r > 0 bytes on a SEQPACKET socket that holds a message of
\* m bytes returns min(m, r) bytes and leaves nothing of the message: the
\* buffer is empty after it, or holds exactly the message of the peer's
\* suspended write, which the read has unsuspended.
C3_SeqpacketResidualDiscarded ==
  \A a, b \in Minors :
    (Connected(a, b) /\ fd[b].type = SOCK_SEQPACKET /\ fd[b].size > 0
       /\ UDS_R \in fd[b].mode) =>
      \A r \in 1 .. MaxSize :
        LET x == uds_read(World, b, 1, FullGrant(0, r), r, FALSE, 1)
        IN  /\ x.r = Min(fd[b].size, r)
            /\ IF fd[a].suspended = UDS_SUSPENDED_WRITE
               THEN /\ Contents(x.w.fd[b]) =
                         GrantData(fd[a].susp_grant, 0, fd[a].susp_size)
                    /\ x.w.fd[a].suspended = UDS_NOT_SUSPENDED
               ELSE x.w.fd[b].size = 0

\* C4: a write on a SEQPACKET socket changes the peer's buffer only if the
\* buffer was empty, and then puts the whole message there; into a buffer
\* that is not empty it puts nothing and would block.  So no SEQPACKET
\* buffer ever holds bytes of more than one message.
C4_SeqpacketWholeMessage ==
  /\ \A h \in Minors :
       (fd[h].state = UDS_INUSE /\ fd[h].type = SOCK_SEQPACKET) =>
         msgs[h] <= 1
  /\ \A a \in InUse :
       fd[a].type = SOCK_SEQPACKET =>
         \A size \in Sizes, st \in 1 .. NBytes, nb \in BOOLEAN :
           LET b == fd[a].peer
               x == uds_write(World, a, 1, FullGrant(st, size), size, nb, 1)
               dep == {i \in Events(x.w, "deposit") : x.w.out[i].minor = a}
           IN  /\ \A m \in Minors \ {b} :
                    /\ x.w.fd[m].buf = fd[m].buf
                    /\ x.w.fd[m].size = fd[m].size
               /\ \A i \in dep :
                    /\ x.w.out[i].into = b
                    /\ x.w.out[i].pre = 0
                    /\ x.w.out[i].n = size
                    /\ x.r = size
               /\ b # -1 =>
                    /\ (x.w.fd[b].buf # fd[b].buf \/ x.w.acc[b] # acc[b]) =>
                         (fd[b].size = 0 /\ dep # {})
                    /\ (/\ fd[b].size > 0 /\ fd[b].peer # -1
                        /\ size > 0 /\ size <= UDS_BUF
                        /\ UDS_W \in fd[a].mode /\ UDS_R \in fd[b].mode) =>
                         /\ x.r = IF nb THEN EAGAIN ELSE EDONTREPLY
                         /\ x.w.fd[b] = fd[b]
                         /\ dep = {}

\* A writer suspended behind a message that waits in the peer's buffer.
C4_Witness ==
  \E a, b \in Minors :
    /\ Connected(a, b)
    /\ fd[a].type = SOCK_SEQPACKET
    /\ fd[a].suspended = UDS_SUSPENDED_WRITE
    /\ fd[b].size > 0 /\ fd[b].size < UDS_BUF /\ msgs[b] = 1

\* C5: a DGRAM write of s bytes, 0 < s <= UDS_BUF, whose receiver is
\* readable and holds a datagram returns s and is dropped: no slot changes,
\* nobody is woken or notified.  And no DGRAM write suspends the sender.
C5_DgramDrop ==
  \A c \in InUse :
    fd[c].type = SOCK_DGRAM =>
      \A size \in Sizes, nb \in BOOLEAN :
        LET d == DgramPeer(fd, c)
            x == uds_write(World, c, 1, FullGrant(1, size), size, nb, 1)
        IN  /\ x.r # EDONTREPLY
            /\ x.w.fd[c].suspended # UDS_SUSPENDED_WRITE
            /\ (/\ d # -1 /\ UDS_R \in fd[d].mode /\ fd[d].size > 0
                /\ UDS_W \in fd[c].mode /\ 0 < size /\ size <= UDS_BUF) =>
                 /\ x.r = size
                 /\ x.w.fd = fd
                 /\ x.w.out = << >>

\* A receiver that holds a datagram and a sender who targets it: the next
\* datagram is dropped.
C5_Witness ==
  \E c, d \in InUse :
    /\ c # d
    /\ fd[c].type = SOCK_DGRAM
    /\ DgramPeer(fd, c) = d
    /\ fd[d].size > 0
    /\ LET x == uds_write(World, c, 1, FullGrant(1, 1), 1, FALSE, 1)
       IN  x.r = 1 /\ x.w.fd = fd

\* What a write on h leaves in out as its own deposits.
Deposits(w, h) == {i \in Events(w, "deposit") : w.out[i].minor = h}

\* The slots whose buffer, size or source differ between two tables.
Touched(f, g) ==
  {m \in Minors : f[m].buf # g[m].buf \/ f[m].size # g[m].size
                    \/ f[m].source # g[m].source}

BoundTo(c) ==
  {i \in Minors : /\ fd[i].type = SOCK_DGRAM
                  /\ fd[i].addr.family = AF_UNIX
                  /\ fd[i].addr.path = fd[c].target.path}

\* C7: a DGRAM write of s <= UDS_BUF bytes on socket c is put into the
\* buffer of a DGRAM slot whose AF_UNIX address has c's target path; the
\* receiver's source becomes c's address and the receiver's next read
\* returns the bytes.  When no DGRAM slot is bound to the target path the
\* write returns ENOENT and changes no slot.
C7_DgramAddressed ==
  \A c \in InUse :
    fd[c].type = SOCK_DGRAM =>
      \A size \in 1 .. UDS_BUF, nb \in BOOLEAN :
        LET g == FullGrant(1, size)
            x == uds_write(World, c, 1, g, size, nb, 1)
            dep == Deposits(x.w, c)
        IN  /\ (BoundTo(c) = {} /\ UDS_W \in fd[c].mode) =>
                 /\ x.r = ENOENT
                 /\ x.w.fd = fd
                 /\ x.w.out = << >>
            /\ (\E d \in BoundTo(c) :
                  /\ \A i \in BoundTo(c) : d <= i
                  /\ fd[d].size = 0 /\ UDS_R \in fd[d].mode
                  /\ UDS_W \in fd[c].mode) => dep # {}
            /\ \A i \in dep :
                 LET d == x.w.out[i].into
                 IN  /\ d \in BoundTo(c)
                     /\ x.w.out[i].n = size
                     /\ x.r = size
                     /\ x.w.fd[d].source = fd[c].addr
                     /\ IF fd[d].suspended = UDS_SUSPENDED_READ
                        THEN \E j \in Events(x.w, "reply_task") :
                               /\ j > i
                               /\ x.w.out[j].id = fd[d].susp_id
                               /\ x.w.out[j].r = Min(size, fd[d].susp_size)
                        ELSE /\ Contents(x.w.fd[d]) = GrantData(g, 0, size)
                             /\ uds_read(x.w, d, 1, FullGrant(0, size), size,
                                         TRUE, 1).r = size

\* A receiver that holds the datagram of a sender bound to another path.
C7_Witness ==
  \E c, d \in InUse :
    /\ c # d
    /\ fd[c].type = SOCK_DGRAM /\ fd[d].type = SOCK_DGRAM
    /\ fd[c].addr.family = AF_UNIX
    /\ fd[c].addr.path # fd[d].addr.path
    /\ BoundTo(c) = {d}
    /\ fd[d].size > 0
    /\ fd[d].source = fd[c].addr

\* The replies a handler sent for the operation that was suspended on a.
RepliesTo(w, a) ==
  {i \in Events(w, "reply_task") : /\ w.out[i].endpt = fd[a].susp_endpt
                                   /\ w.out[i].id = fd[a].susp_id}

\* C8: closing one socket of a connected STREAM/SEQPACKET pair leaves the
\* survivor with peer = -1 and its buffered bytes readable.  ECONNRESET is
\* handed over once: to the survivor's suspended operation, replied to
\* during the close, or else to the first read on the empty buffer or the
\* first write; the read or write after that returns ENOTCONN.
C8_CloseResetsPeer ==
  /\ \A a, b \in Minors :
       (Connected(a, b) /\ IsConnOriented(fd[a])) =>
         LET x == uds_close(World, uds_exit_left, b)
             sa == x.w.fd[a]
         IN  /\ x.r = OK
             /\ x.w.fd[b].state = UDS_FREE
             /\ sa.peer = -1
             /\ Contents(sa) = Contents(fd[a])
             /\ IF fd[a].suspended = UDS_NOT_SUSPENDED
                THEN /\ sa.err = ECONNRESET
                     /\ Events(x.w, "reply_task") = {}
                ELSE /\ Cardinality(RepliesTo(x.w, a)) = 1
                     /\ \A i \in RepliesTo(x.w, a) : x.w.out[i].r = ECONNRESET
                     /\ sa.suspended = UDS_NOT_SUSPENDED
                     /\ sa.err = 0
  /\ \A a \in InUse :
       (IsConnOriented(fd[a]) /\ fd[a].peer = -1) =>
         \A size \in 1 .. UDS_BUF :
           LET gr == FullGrant(0, size)
               gw == FullGrant(1, size)
               r1 == uds_read(World, a, 1, gr, size, FALSE, 1)
               w1 == uds_write(World, a, 1, gw, size, FALSE, 1)
               once == IF fd[a].err = ECONNRESET THEN ECONNRESET ELSE ENOTCONN
           IN  /\ UDS_R \in fd[a].mode =>
                    IF fd[a].size > 0
                    THEN /\ r1.r = Min(size, fd[a].size)
                         /\ r1.w.fd[a].err = fd[a].err
                    ELSE /\ r1.r = once
                         /\ uds_read(r1.w, a, 1, gr, size, FALSE, 1).r = ENOTCONN
                         /\ UDS_W \in fd[a].mode =>
                              uds_write(r1.w, a, 1, gw, size, FALSE, 1).r
                                = ENOTCONN
               /\ UDS_W \in fd[a].mode =>
                    /\ w1.r = once
                    /\ uds_write(w1.w, a, 1, gw, size, FALSE, 1).r = ENOTCONN
                    /\ (UDS_R \in fd[a].mode /\ fd[a].size = 0) =>
                         uds_read(w1.w, a, 1, gr, size, FALSE, 1).r = ENOTCONN

\* A survivor that still holds bytes of its closed peer and the error.
C8_Witness ==
  \E a \in InUse :
    /\ IsConnOriented(fd[a])
    /\ fd[a].peer = -1
    /\ fd[a].err = ECONNRESET
    /\ fd[a].size > 0

\* The sockets waiting in the backlog of a listener.
Connecting(l) ==
  {fd[l].backlog[i] : i \in 1 .. fd[l].backlog_size} \ {-1}

Listener(l) == l \in InUse /\ fd[l].listening /\ fd[l].peer = -1

\* C9 (as stated): after the close of a listener every socket of its
\* backlog has peer = -1 and its first read or write returns ECONNRESET,
\* whether or not the socket had an operation suspended.
C9_ResetOnNextIO ==
  \A l \in Minors :
    Listener(l) =>
      LET x == uds_close(World, uds_exit_left, l)
      IN  \A c \in Connecting(l), size \in 1 .. UDS_BUF :
            /\ x.w.fd[c].peer = -1
            /\ uds_read(x.w, c, 1, FullGrant(0, size), size, FALSE, 1).r
                 = ECONNRESET
            /\ uds_write(x.w, c, 1, FullGrant(1, size), size, FALSE, 1).r
                 = ECONNRESET

\* C9 (amended): after the close of a listener every socket of its backlog
\* has peer = -1.  A socket that had no operation suspended gets ECONNRESET
\* from its first read or write.  A socket that had one suspended (connect,
\* read or write) gets ECONNRESET as the reply to that operation during the
\* close, and ENOTCONN from its next read or write.
C9_ResetOnceForBacklog ==
  \A l \in Minors :
    Listener(l) =>
      LET x == uds_close(World, uds_exit_left, l)
      IN  \A c \in Connecting(l), size \in 1 .. UDS_BUF :
            LET next == IF fd[c].suspended = UDS_NOT_SUSPENDED
                        THEN ECONNRESET ELSE ENOTCONN
            IN  /\ x.w.fd[c].peer = -1
                /\ x.w.fd[c].suspended = UDS_NOT_SUSPENDED
                /\ uds_read(x.w, c, 1, FullGrant(0, size), size, FALSE, 1).r
                     = next
                /\ uds_write(x.w, c, 1, FullGrant(1, size), size, FALSE, 1).r
                     = next
                /\ fd[c].suspended # UDS_NOT_SUSPENDED =>
                     RepliesTo(x.w, c) # {}
                /\ \A i \in Events(x.w, "reply_task") :
                     x.w.out[i].r = ECONNRESET
                /\ Cardinality(Events(x.w, "reply_task")) =
                     Cardinality({k \in Connecting(l) :
                                    fd[k].suspended # UDS_NOT_SUSPENDED})

\* A listener with two sockets in its backlog, one with its connect
\* suspended and one without a suspended operation.
C9_Witness ==
  \E l \in Minors :
    /\ Listener(l)
    /\ \E c1, c2 \in Connecting(l) :
         /\ fd[c1].suspended = UDS_SUSPENDED_CONNECT
         /\ fd[c2].suspended = UDS_NOT_SUSPENDED

\* The buffers, peer links and errors of all slots are as in the table.
Quiet(w) ==
  \A m \in Minors :
    /\ w.fd[m].buf = fd[m].buf
    /\ w.fd[m].pos = fd[m].pos
    /\ w.fd[m].size = fd[m].size
    /\ w.fd[m].peer = fd[m].peer
    /\ w.fd[m].err = fd[m].err

\* C10: a read or write with the non-blocking flag that cannot complete
\* returns EAGAIN, sends nothing, leaves the socket not suspended and
\* leaves the buffers, peers and errors of all slots as they were; no
\* non-blocking read or write withholds its reply.
C10_NonblockNeverSuspends ==
  \A h \in InUse, size \in Sizes :
    LET g == FullGrant(1, size)
        pr == uds_perform_read(World, h, 1, g, size, FALSE, 0)
        pw == uds_perform_write(World, h, 1, g, size, FALSE, 0)
        xr == uds_read(World, h, 1, g, size, TRUE, 1)
        xw == uds_write(World, h, 1, g, size, TRUE, 1)
    IN  /\ xr.r # EDONTREPLY
        /\ xw.r # EDONTREPLY
        /\ (pr.r = EDONTREPLY /\ ~Halted(pr.w)) =>
             /\ xr.r = EAGAIN
             /\ xr.w.out = << >>
             /\ xr.w.fd[h].suspended = UDS_NOT_SUSPENDED
             /\ Quiet(xr.w)
        /\ (pw.r = EDONTREPLY /\ ~Halted(pw.w)) =>
             /\ xw.r = EAGAIN
             /\ xw.w.out = << >>
             /\ xw.w.fd[h].suspended = UDS_NOT_SUSPENDED
             /\ Quiet(xw.w)

\* A socket that can neither read, its buffer being empty, nor write, its
\* peer's buffer being full.
C10_Witness ==
  \E a, b \in Minors :
    /\ Connected(a, b)
    /\ fd[a].size = 0
    /\ fd[b].size = UDS_BUF
    /\ uds_read(World, a, 1, FullGrant(1, 1), 1, TRUE, 1).r = EAGAIN
    /\ uds_write(World, a, 1, FullGrant(1, 1), 1, TRUE, 1).r = EAGAIN

\* The request a cancel names is the one slot minor is suspended on.
CancelMatches(minor, endpt, id) ==
  /\ minor \in InUse
  /\ fd[minor].suspended # UDS_NOT_SUSPENDED
  /\ fd[minor].susp_endpt = endpt
  /\ fd[minor].susp_id = id

\* Slot m after a matching cancel on slot minor.
Cancelled(minor, m) ==
  LET a == IF fd[minor].suspended = UDS_SUSPENDED_ACCEPT
              /\ fd[m].child = minor
           THEN [fd[m] EXCEPT !.child = -1]
           ELSE fd[m]
  IN  IF m = minor THEN [a EXCEPT !.suspended = UDS_NOT_SUSPENDED] ELSE a

\* C11: uds_cancel returns EINTR and clears the suspension of slot minor
\* exactly when minor is in range, in use, suspended, and the saved
\* (susp_endpt, susp_id) are the (endpt, id) of the cancel; otherwise it
\* returns EDONTREPLY and changes nothing.  On a match the only other
\* change is, for an ACCEPT, child := -1 in every slot whose child is
\* minor: peer links, backlogs and buffers stay as they are.
C11_CancelExact ==
  \A minor \in ReqMinors, endpt \in Endpts \cup {0}, id \in Ids \cup {0} :
    LET x == uds_cancel(World, minor, endpt, id)
    IN  IF CancelMatches(minor, endpt, id)
        THEN /\ x.r = EINTR
             /\ x.w.fd = [m \in Minors |-> Cancelled(minor, m)]
             /\ x.w = [World EXCEPT !.fd = x.w.fd]
        ELSE /\ x.r = EDONTREPLY
             /\ x.w = World

\* A socket suspended in accept that its server holds as child, and a
\* socket suspended in connect that waits in a backlog.
C11_Witness ==
  \E h, srv, c \in InUse :
    /\ fd[h].suspended = UDS_SUSPENDED_ACCEPT
    /\ fd[srv].child = h
    /\ c # h

\* The slots uds_open may take.
FreeSlots == {m \in 1 .. (NR_FDS - 1) : fd[m].state = UDS_FREE}

\* The initial parameters of a socket, the err field included.
OpenDefaults(slot) ==
  /\ slot.state = UDS_INUSE
  /\ slot.mode = {UDS_R, UDS_W}
  /\ slot.type = TYPE_UNSET
  /\ slot.peer = -1
  /\ ~slot.listening
  /\ slot.child = -1
  /\ \A i \in 1 .. UDS_SOMAXCONN : slot.backlog[i] = -1
  /\ slot.pos = 0 /\ slot.size = 0
  /\ slot.suspended = UDS_NOT_SUSPENDED
  /\ slot.sel_ops = {}
  /\ Len(slot.buf) = UDS_BUF

\* What uds_open returns and which slots it leaves alone.
OpenResult(mmap_ok) ==
  LET x == uds_open(World, mmap_ok)
  IN  IF FreeSlots = {} THEN x.r = ENFILE /\ x.w = World
      ELSE IF ~mmap_ok THEN x.r = ENOMEM /\ x.w = World
      ELSE /\ x.r \in FreeSlots
           /\ \A m \in FreeSlots : x.r <= m
           /\ \A m \in Minors \ {x.r} : x.w.fd[m] = fd[m]
           /\ OpenDefaults(x.w.fd[x.r])

\* C12: uds_open returns the smallest minor >= 1 whose slot is
\* free and makes that slot, and no other, a socket in use with the initial
\* parameters and err = 0; with no free slot it returns ENFILE, without
\* memory ENOMEM, and then changes nothing.  A slot is in use exactly when
\* it holds a buffer.
C12_OpenDefaultsErrZero ==
  /\ \A m \in Minors : (fd[m].state = UDS_INUSE) <=> (fd[m].buf # << >>)
  /\ \A mmap_ok \in BOOLEAN :
       /\ OpenResult(mmap_ok)
       /\ (FreeSlots # {} /\ mmap_ok) =>
            LET x == uds_open(World, mmap_ok) IN x.w.fd[x.r].err = 0

\* C13: while the driver drains, a close signals the transport to terminate
\* only if it closed the last live socket: whenever terminate has been
\* signalled, no slot is in use, whatever opens and closes follow the
\* SIGTERM.
C13_TerminateOnlyWhenEmpty ==
  phase = "terminated" => CountInUse(fd) = 0

\* C18: after a SIGTERM the transport is told to terminate at once if no
\* slot is in use, and otherwise no later than the close of the last socket
\* that was in use at the signal: while the driver drains, uds_exit_left
\* is at most the number of those sockets still open.  So if clients keep
\* closing sockets, terminate is signalled in the end, whatever sockets
\* are opened and closed in between.
C18_DrainLiveness ==
  /\ [](phase = "run" =>
         /\ live \subseteq InUse
         /\ uds_exit_left <= Cardinality(live))
  /\ [][(SignalOnce /\ InUse = {}) => phase' = "terminated"]_vars
  /\ (uds_exit_left > 0) ~> (phase = "terminated")

\* The driver drains, and a socket opened after the SIGTERM is open.
C18_Witness ==
  /\ phase = "run"
  /\ uds_exit_left > 0
  /\ InUse \ live # {}

\* The replies to suspended requests a handler sent, in order.
TaskReplies(w) == SelectSeq(w.out, LAMBDA e : e.k = "reply_task")

\* The one reply a woken waiter p gets: to the saved endpoint and id.
WakeReply(p, r) ==
  << [k |-> "reply_task", endpt |-> fd[p].susp_endpt, id |-> fd[p].susp_id,
      r |-> r] >>

\* C14: a wake-up happens within the waking operation.  When a write
\* deposits bytes in the buffer of a socket suspended on READ, that read
\* is re-run, replied to with its result, and the suspension cleared, all
\* by the time the write returns.  When a read drains bytes from a buffer
\* that the connected peer is suspended on WRITE for, the same holds for
\* that write if it can now proceed; if it would still block (SEQPACKET,
\* buffer not yet empty) the waiter keeps its slot unchanged, the saved
\* kind, endpt, grant, size and id included, and gets no reply.
C14_WakeWithinOperation ==
  \A c \in InUse, size \in 1 .. MaxSize, nb \in BOOLEAN :
    LET p == fd[c].peer
    IN  (phase = "run" /\ p # -1 /\ fd[c].suspended = UDS_NOT_SUSPENDED) =>
          /\ fd[p].suspended = UDS_SUSPENDED_READ =>
                LET x == uds_write(World, c, 1, FullGrant(1, size), size,
                                   nb, 1)
                IN  x.r > 0 =>
                      /\ x.w.fd[p].suspended = UDS_NOT_SUSPENDED
                      /\ TaskReplies(x.w) =
                           WakeReply(p, Min(fd[p].susp_size,
                                            fd[p].size + x.r))
                      /\ x.w.fd[p].size =
                           fd[p].size + x.r
                             - Min(fd[p].susp_size, fd[p].size + x.r)
          /\ fd[p].suspended = UDS_SUSPENDED_WRITE /\ fd[p].peer = c =>
                LET x == uds_read(World, c, 1, FullGrant(0, size), size,
                                  nb, 1)
                    left == fd[c].size - x.r
                    room == Min(fd[p].susp_size, UDS_BUF - left)
                IN  x.r > 0 =>
                      IF fd[p].type = SOCK_SEQPACKET /\ left > 0
                      THEN /\ x.w.fd[p] = fd[p]
                           /\ TaskReplies(x.w) = << >>
                           /\ x.w.fd[c].size = left
                      ELSE /\ x.w.fd[p].suspended = UDS_NOT_SUSPENDED
                           /\ TaskReplies(x.w) = WakeReply(p, room)
                           /\ x.w.fd[c].size = left + room

\* A SEQPACKET writer is suspended on a buffer that holds two bytes, so
\* that a read of one byte leaves it blocked and a read of two wakes it.
C14_Witness ==
  \E a, b \in InUse :
        /\ Connected(a, b)
        /\ fd[a].type = SOCK_SEQPACKET
        /\ fd[b].suspended = UDS_SUSPENDED_WRITE
        /\ fd[a].suspended = UDS_NOT_SUSPENDED
        /\ fd[a].size = 2
        /\ uds_read(World, a, 1, FullGrant(0, 1), 1, FALSE, 1).w.fd[b]
             = fd[b]
        /\ uds_read(World, a, 1, FullGrant(0, 2), 2, FALSE, 1).w.fd[b]
             .suspended = UDS_NOT_SUSPENDED

\* C15: the fatal consistency conditions of the data path are not reached.
\* In every reachable state no socket is suspended on READ while its own
\* buffer holds bytes, and no socket is suspended on WRITE while the buffer
\* of the peer it is connected to is empty; and no read or write request,
\* on any socket and of any size, ends in a panic.
C15_NoDataPathPanic ==
  /\ \A m \in InUse :
        /\ fd[m].suspended = UDS_SUSPENDED_READ => fd[m].size = 0
        /\ \A p \in InUse :
             (fd[m].suspended = UDS_SUSPENDED_WRITE /\ Connected(m, p))
               => fd[p].size > 0
  /\ phase = "run" =>
        \A minor \in ReqMinors, size \in 0 .. MaxSize, nb \in BOOLEAN :
          /\ uds_read(World, minor, 1, FullGrant(0, size), size, nb, 1)
               .w.phase = "run"
          /\ uds_write(World, minor, 1, FullGrant(1, size), size, nb, 1)
               .w.phase = "run"

\* A writer is suspended on the full buffer of its peer, and a read of
\* the peer wakes it.
C15_Witness ==
  \E a, b \in InUse :
    /\ Connected(a, b)
    /\ fd[a].suspended = UDS_SUSPENDED_WRITE
    /\ fd[b].suspended = UDS_NOT_SUSPENDED
    /\ fd[b].size = UDS_BUF
    /\ uds_read(World, b, 1, FullGrant(0, 1), 1, FALSE, 1).w.fd[a].suspended
         = UDS_NOT_SUSPENDED

\* The select notification a handler fired as its last step, if any: after
\* it the handler changes no buffer, so the table it returns with is the
\* table at the moment of the notification.
LastNotify(w) ==
  IF w.out # << >> /\ w.out[Len(w.out)].k = "reply_select"
  THEN {w.out[Len(w.out)]}
  ELSE {}

\* The operations of a notification that would not block when it is sent.
NotifyReady(w, e) ==
  /\ CDEV_OP_WR \in e.ops =>
       uds_perform_write(w, e.minor, NONE, GRANT_INVALID, 1, TRUE, 0).r
         # EDONTREPLY
  /\ CDEV_OP_RD \in e.ops =>
       uds_perform_read(w, e.minor, NONE, GRANT_INVALID, 1, TRUE, 0).r
         # EDONTREPLY

\* C16: a select notification is sent only when the operation has become
\* ready.  Whenever a read, a write or a close (through uds_reset) fires a
\* WR notification for a socket, a pretend write on that socket at that
\* moment does not return EDONTREPLY, and likewise a pretend read for an
\* RD notification; for STREAM and SEQPACKET alike, also after a read that
\* takes only part of the bytes in the buffer.
C16_NotifyOnlyWhenReady ==
  phase = "run" =>
    \A minor \in InUse, size \in 1 .. MaxSize :
      /\ LET x == uds_read(World, minor, 1, FullGrant(0, size), size,
                           FALSE, 1)
         IN  \A e \in LastNotify(x.w) : NotifyReady(x.w, e)
      /\ LET x == uds_write(World, minor, 1, FullGrant(1, size), size,
                            FALSE, 1)
         IN  \A e \in LastNotify(x.w) : NotifyReady(x.w, e)
      /\ LET x == uds_close(World, uds_exit_left, minor)
         IN  \A e \in LastNotify(x.w) : NotifyReady(x.w, e)

\* The select requests: every set of operations, with and without NOTIFY.
SelectOps == SUBSET {CDEV_OP_RD, CDEV_OP_WR, CDEV_OP_ERR, CDEV_NOTIFY}

\* C17: uds_select is a probe.  It changes no field of any slot but
\* sel_endpt and sel_ops of slot minor, sends no reply and no notification,
\* and leaves a pending ECONNRESET for the next read.  sel_ops gains
\* exactly the requested RD, WR and ERR operations that it did not report
\* ready, and only when NOTIFY was requested; the mask it returns is a
\* subset of the requested RD and WR.
C17_SelectIsProbe ==
  \A minor \in ReqMinors, ops \in SelectOps :
    LET endpt == MaxEndpt + 1
        x == uds_select(World, minor, ops, endpt)
        rest == (ops \ {CDEV_NOTIFY}) \ x.ready
    IN  /\ x.w = [World EXCEPT !.fd = x.w.fd]
        /\ \A m \in Minors \ {minor} : x.w.fd[m] = fd[m]
        /\ x.ready \subseteq ops \cap {CDEV_OP_RD, CDEV_OP_WR}
        /\ minor \notin InUse => x.w = World /\ x.r \in {ENXIO, EINVAL}
        /\ minor \in InUse =>
              /\ x.r = OK
              /\ x.w.fd[minor] =
                   [fd[minor] EXCEPT !.sel_endpt = x.w.fd[minor].sel_endpt,
                                     !.sel_ops = x.w.fd[minor].sel_ops]
              /\ x.w.fd[minor].sel_ops =
                   IF CDEV_NOTIFY \in ops THEN fd[minor].sel_ops \cup rest
                   ELSE fd[minor].sel_ops
              /\ x.w.fd[minor].sel_endpt =
                   IF CDEV_NOTIFY \in ops /\ rest # {} THEN endpt
                   ELSE fd[minor].sel_endpt
              /\ fd[minor].err = ECONNRESET =>
                   uds_read(x.w, minor, 1, FullGrant(0, 1), 1, TRUE, 1).r
                     = uds_read(World, minor, 1, FullGrant(0, 1), 1, TRUE, 1).r

\* A socket whose peer was closed holds ECONNRESET; select reports it
\* readable, and the read after the select returns the error.
C17_Witness ==
  \E h \in InUse :
    /\ fd[h].err = ECONNRESET
    /\ fd[h].peer = -1
    /\ fd[h].size = 0
    /\ LET x == uds_select(World, h, {CDEV_OP_RD, CDEV_OP_WR, CDEV_NOTIFY}, 1)
       IN  /\ CDEV_OP_RD \in x.ready
           /\ uds_read(x.w, h, 1, FullGrant(0, 1), 1, TRUE, 1).r = ECONNRESET

\* The suspension recorded on slot h is in table w as it is now.
Kept(w, h) ==
  /\ w.fd[h].suspended = fd[h].suspended
  /\ w.fd[h].susp_endpt = fd[h].susp_endpt
  /\ w.fd[h].susp_grant = fd[h].susp_grant
  /\ w.fd[h].susp_size = fd[h].susp_size
  /\ w.fd[h].susp_id = fd[h].susp_id

\* The handler replied to the request suspended on slot h.
Answered(w, h) ==
  \E i \in Events(w, "reply_task") :
    w.out[i].endpt = fd[h].susp_endpt /\ w.out[i].id = fd[h].susp_id

\* C19: a recorded suspension is not lost to a later request on the same
\* slot.  While a request is suspended on slot h, a read, write or ioctl
\* on h, blocking or not, leaves the kind and the saved endpt, grant, size
\* and id as they are, unless the suspended request is replied to.
C19_SuspensionKept ==
  \A h \in InUse :
    (phase = "run" /\ fd[h].suspended # UDS_NOT_SUSPENDED) =>
      \A nb \in BOOLEAN :
        /\ \A size \in 0 .. MaxSize :
             /\ LET x == uds_read(World, h, 1, FullGrant(0, size), size,
                                  nb, 1)
                IN  Kept(x.w, h) \/ Answered(x.w, h)
             /\ LET x == uds_write(World, h, 1, FullGrant(1, size), size,
                                   nb, 1)
                IN  Kept(x.w, h) \/ Answered(x.w, h)
        /\ \A request \in Requests :
             LET x == uds_ioctl(World, h, request, 1, GRANT_INVALID, nb, 1)
             IN  Kept(x.w, h) \/ Answered(x.w, h)

\* The slots whose suspended request a handler has done with: suspended
\* before it, not suspended (or closed) after it.
Released(w) ==
  {h \in InUse : /\ fd[h].suspended # UDS_NOT_SUSPENDED
                 /\ w.fd[h].suspended = UDS_NOT_SUSPENDED}

\* Each reply a handler sent belongs to a suspension of its own, which is
\* cleared when the handler returns.
OncePerSuspension(w) ==
  Len(TaskReplies(w)) <= Cardinality(Released(w))

\* C20: a suspended request is answered at most once.  Every reply
\* uds_unsuspend sends in the course of a request, nested wake-ups and
\* resets included, is for a suspension of its own, and that suspension is
\* cleared when the request returns, so that no later wake-up and no later
\* cancel answers it again; a cancel that returns EINTR sends no reply.
C20_AnsweredAtMostOnce ==
  phase = "run" =>
    \A minor \in ReqMinors, nb \in BOOLEAN :
      /\ \A size \in 1 .. MaxSize :
           /\ OncePerSuspension(
                uds_read(World, minor, 1, FullGrant(0, size), size, nb, 1).w)
           /\ OncePerSuspension(
                uds_write(World, minor, 1, FullGrant(1, size), size, nb, 1).w)
      /\ \A request \in Requests :
           OncePerSuspension(
             uds_ioctl(World, minor, request, 1, GRANT_INVALID, nb, 1).w)
      /\ nb => OncePerSuspension(uds_close(World, uds_exit_left, minor).w)
      /\ nb => \A id \in Ids \cup {0} :
                 LET x == uds_cancel(World, minor, 1, id)
                 IN  /\ TaskReplies(x.w) = << >>
                     /\ x.r = EINTR =>
                          x.w.fd[minor].suspended = UDS_NOT_SUSPENDED

\* Two connected sockets are both suspended on WRITE; a read on one wakes
\* the other, whose write wakes nobody: one reply.
C20_Witness ==
  \E a, b \in InUse :
    /\ Connected(a, b)
    /\ fd[a].suspended = UDS_SUSPENDED_WRITE
    /\ fd[b].suspended = UDS_SUSPENDED_WRITE
    /\ LET x == uds_read(World, a, 1, FullGrant(0, 1), 1, FALSE, 1)
       IN  /\ Len(TaskReplies(x.w)) = 1
           /\ Released(x.w) = {b}

\* Slot x of table fdt names slot h as its peer, in its backlog, or as
\* its child.
RefersTo(fdt, x, h) ==
  \/ fdt[x].peer = h
  \/ fdt[x].child = h
  \/ /\ fdt[x].listening
     /\ \E i \in 1 .. UDS_SOMAXCONN : fdt[x].backlog[i] = h

\* C21: no slot in use refers to a free slot.  In every state the peer
\* and the child of a slot in use are -1 or a slot in use, and so is every
\* occupied backlog entry of a listening socket; and after a close of h
\* that succeeds, whatever h was linked to or suspended on, no slot still
\* in use holds h as peer, backlog entry or child.
C21_NoDanglingLink ==
  /\ \A x \in InUse, h \in Minors :
       RefersTo(fd, x, h) => h \in InUse
  /\ phase = "run" =>
       \A h \in InUse :
         LET y == uds_close(World, uds_exit_left, h)
         IN  (y.r = OK /\ ~Halted(y.w)) =>
               \A x \in InUse \ {h} : ~RefersTo(y.w.fd, x, h)

====
